---- MODULE Spec2Model ----
(***************************************************************************)
(* Model of yrs `types::Map` (src/yrs/src/types/map.rs): a last-write-wins *)
(* replicated key-value collection.  Every replica (Doc) owns a block      *)
(* store; per key the items form a doubly linked version log whose last    *)
(* element is the branch's entry-index value for the key.                  *)
(*                                                                         *)
(* Map's own methods are modelled from map.rs.  The collaborators they     *)
(* call (Transaction::create_item / delete / apply_update / commit,        *)
(* Item::integrate, Branch::get / remove, types::event_keys) live outside  *)
(* map.rs and are modelled from their contract.                            *)
(***************************************************************************)
EXTENDS Integers, Sequences, FiniteSets, TLC

\* ------------------------------------------------------------------ bounds
NumValues == 2
MaxItems == 3
MaxRemoved == 1
MaxRoundItems == 4
MaxRoundRemoved == 1
MaxCallItems == 3
MaxCallRemoved == 2
MaxTxnItems == 3
MaxTxnRemoved == 1
MaxObsItems == 3
MaxObsRemoved == 1
MaxSubs == 2
MaxEvItems == 3
MaxEvRemoved == 1
MaxBranches == 3
MaxNestItems == 3
MaxNestRemoved == 1
MaxApiItems == 3
MaxApiRemoved == 2

\* Doc::with_client_id(1), (2), (3): the replicas of the tests.
Clients == {1, 2, 3}
\* The replicas that run explicit transactions in SpecTxn.
TxnClients == {1, 2}
Keys == {"a", "b"}
Values == 1..NumValues

\* Option<T>: None is the empty tuple, Some(v) the one-element tuple.
None == <<>>
Some(v) == <<v>>

VARIABLES
    blocks,   \* ID -> immutable fields of every Item created so far
    docs,     \* client id -> the replica's document state
    ret,      \* what the last operation returned to its caller
    removed,  \* history: ids that a remove() or clear() call tombstoned
    phase,    \* SpecRounds only: "edit" or "exchange"
    log,      \* SpecRounds only: client id -> operations of the current round
    fired,    \* the observer callbacks the last step invoked
    mapEvent, \* SpecEvent only: the MapEvent a commit is handing to callbacks
    nest      \* SpecNested only: a document whose root map holds nested maps

vars == <<blocks, docs, ret, removed, phase, log, fired, mapEvent, nest>>

\* ------------------------------------------------------------- sequences
Range(s) == {s[i] : i \in 1..Len(s)}

IndexOf(s, x) == CHOOSE i \in 1..Len(s) : s[i] = x

Extend(f, x, y) == [i \in (DOMAIN f) \cup {x} |-> IF i = x THEN y ELSE f[i]]

\* ------------------------------------------------------------ block store
\* Ids of the items a document holds.
ItemsOf(doc) == UNION {Range(doc.list[k]) : k \in Keys}

StateVector(doc) ==
    [c \in Clients |-> Cardinality({id \in ItemsOf(doc) : id[1] = c})]

IsDeleted(doc, id) == id \in doc.deleted

\* Transaction::delete: tombstone a live item, record it in the transaction's
\* delete set and mark the key as changed; a no-op on a tombstoned item.
TxnDelete(B, doc, id) ==
    IF IsDeleted(doc, id) THEN doc
    ELSE [doc EXCEPT !.deleted = @ \cup {id},
                     !.ds = @ \cup {id},
                     !.changed = @ \cup {B[id].key}]

\* The conflict scan of Item::integrate (YATA): starting at entry o, find the
\* entry after which the new item `id` is linked.
RECURSIVE Scan(_, _, _, _, _, _, _)
Scan(B, chain, id, o, left, before, conflicting) ==
    IF o > Len(chain) THEN left
    ELSE LET oid == chain[o]
             b2 == before \cup {oid}
             c2 == conflicting \cup {oid}
         IN  IF B[id].origin = B[oid].origin
             THEN IF oid[1] < id[1]
                  THEN Scan(B, chain, id, o + 1, o, b2, {})
                  ELSE IF B[id].rightOrigin = B[oid].rightOrigin
                       THEN left
                       ELSE Scan(B, chain, id, o + 1, left, b2, c2)
             ELSE IF B[oid].origin # None /\ B[oid].origin[1] \in b2
                  THEN IF B[oid].origin[1] \notin c2
                       THEN Scan(B, chain, id, o + 1, o, b2, {})
                       ELSE Scan(B, chain, id, o + 1, left, b2, c2)
                  ELSE left

\* The mutated scan: the new item is linked right after its origin, whatever
\* concurrent siblings are already there.
ScanNoConflicts(B, chain, id, o, left, before, conflicting) == left

ConflictScan(B, chain, id, o, left, before, conflicting) ==
    Scan(B, chain, id, o, left, before, conflicting)

\* Item::integrate for an item with a parent_sub and no right neighbour:
\* l is the index of this.left in the key's list (0: none).  Returns the
\* document and whether the caller has to delete the item (it did not become
\* the key's current entry).
Integrate(B, doc, id, l) ==
    LET k == B[id].key
        chain == doc.list[k]
        n == Len(chain)
        left == IF l = 0 \/ l < n
                THEN ConflictScan(B, chain, id, l + 1, l, {}, {})
                ELSE l
        isLast == left = n
        linked == [doc EXCEPT
                     !.list[k] = SubSeq(chain, 1, left) \o <<id>>
                                   \o SubSeq(chain, left + 1, n),
                     !.map[k] = IF isLast THEN Some(id) ELSE @]
        superseded == IF isLast /\ left > 0
                      THEN TxnDelete(B, linked, chain[left])
                      ELSE linked
    IN  [doc |-> [superseded EXCEPT !.changed = @ \cup {k}],
         delete |-> ~isLast]

\* Transaction::create_item: a new item of the local client at pos.left.
CreateItem(B, doc, id, left) ==
    LET k == B[id].key
        l == IF left = None THEN 0 ELSE IndexOf(doc.list[k], left[1])
    IN  Integrate(B, doc, id, l).doc

\* Branch::get
BranchGet(B, doc, k) ==
    IF doc.map[k] = None THEN None
    ELSE IF IsDeleted(doc, doc.map[k][1]) THEN None
         ELSE Some(B[doc.map[k][1]].content)

\* Branch::remove
BranchRemove(B, doc, k) ==
    IF doc.map[k] = None THEN [doc |-> doc, ret |-> None]
    ELSE [doc |-> TxnDelete(B, doc, doc.map[k][1]),
          ret |-> BranchGet(B, doc, k)]

\* ------------------------------------------------------------------- Map
\* Map::get
GetInverted(B, doc, k) ==
    IF doc.map[k] = None THEN None
    ELSE IF ~IsDeleted(doc, doc.map[k][1]) THEN None
         ELSE Some(B[doc.map[k][1]].content)

Get(B, doc, k) == BranchGet(B, doc, k)

\* Map::contains
contains(doc, k) ==
    IF doc.map[k] # None THEN ~IsDeleted(doc, doc.map[k][1]) ELSE FALSE

\* Map::len, mutated: every entry of the entry index is counted.
LenCountsTombstones(doc) == Cardinality({k \in Keys : doc.map[k] # None})

\* Map::len
len(doc) ==
    Cardinality({k \in Keys : doc.map[k] # None /\ ~IsDeleted(doc, doc.map[k][1])})

\* The new block of Map::insert: Item::new with origin = last id of pos.left
\* and no right origin.
NewItem(k, v, left) == [key |-> k, content |-> v, origin |-> left, rightOrigin |-> None]

NextId(doc, c) == <<c, StateVector(doc)[c]>>

\* Map::insert, mutated: the position does not name the current holder.
InsertNoLeft(B, doc, c, k, v) ==
    LET id == NextId(doc, c)
        B2 == Extend(B, id, NewItem(k, v, None))
    IN  [doc |-> CreateItem(B2, doc, id, None), blocks |-> B2, ret |-> Get(B, doc, k)]

\* Map::insert, mutated: `previous` is read after the item was created.
InsertReturnsNew(B, doc, c, k, v) ==
    LET id == NextId(doc, c)
        B2 == Extend(B, id, NewItem(k, v, doc.map[k]))
        d2 == CreateItem(B2, doc, id, doc.map[k])
    IN  [doc |-> d2, blocks |-> B2, ret |-> Get(B2, d2, k)]

\* Map::insert
Insert(B, doc, c, k, v) ==
    LET previous == Get(B, doc, k)
        left == doc.map[k]
        id == NextId(doc, c)
        B2 == Extend(B, id, NewItem(k, v, left))
    IN  [doc |-> CreateItem(B2, doc, id, left), blocks |-> B2, ret |-> previous]

\* Map::remove, mutated: every entry of the entry index is tombstoned.
RemoveEveryKey(B, doc, k) ==
    LET live == {doc.map[x][1] : x \in {y \in Keys : contains(doc, y)}}
    IN  [doc |-> [doc EXCEPT !.deleted = @ \cup live,
                             !.ds = @ \cup live,
                             !.changed = @ \cup {B[id].key : id \in live}],
         ret |-> BranchGet(B, doc, k)]

\* Map::remove, mutated: the value is returned but the entry is left alone.
RemoveKeepsEntry(B, doc, k) == [doc |-> doc, ret |-> BranchGet(B, doc, k)]

\* Map::remove
Remove(B, doc, k) == BranchRemove(B, doc, k)

\* Map::clear visits every entry of the entry index.
RECURSIVE DeleteAll(_, _, _)
DeleteAll(B, doc, ks) ==
    IF ks = {} THEN doc
    ELSE LET k == CHOOSE x \in ks : TRUE
         IN  DeleteAll(B, TxnDelete(B, doc, doc.map[k][1]), ks \ {k})

\* Map::clear, mutated: the loop stops after the first entry.
ClearFirstOnly(B, doc) ==
    LET ks == {k \in Keys : doc.map[k] # None}
    IN  IF ks = {} THEN doc
        ELSE DeleteAll(B, doc, {CHOOSE x \in ks : TRUE})

\* Map::clear
Clear(B, doc) == DeleteAll(B, doc, {k \in Keys : doc.map[k] # None})

\* ------------------------------------------------------------- iterators
\* Entries::next over the entry index visited in `order`: the keys whose entry
\* is a live item, the others are skipped.
RECURSIVE Entries(_, _)
Entries(doc, order) ==
    IF order = <<>> THEN <<>>
    ELSE LET k == Head(order)
             rest == Entries(doc, Tail(order))
         IN  IF doc.map[k] = None THEN rest
             ELSE IF IsDeleted(doc, doc.map[k][1]) THEN rest
                  ELSE <<[key |-> k, item |-> doc.map[k][1]]>> \o rest

\* Map::entries, mutated: the iterator walks the entry index as it is.
RECURSIVE EntriesWithTombstones(_, _)
EntriesWithTombstones(doc, order) ==
    IF order = <<>> THEN <<>>
    ELSE LET k == Head(order)
             rest == EntriesWithTombstones(doc, Tail(order))
         IN  IF doc.map[k] = None THEN rest
             ELSE <<[key |-> k, item |-> doc.map[k][1]]>> \o rest

\* Map::entries
MapEntries(doc, order) == Entries(doc, order)

\* Map::keys with Keys::next, run to the end.
MapKeys(doc, order) ==
    LET es == MapEntries(doc, order) IN [i \in 1..Len(es) |-> es[i].key]

\* ItemContent::get_last / get_content of an item written by Map::insert: the
\* one value it holds.
GetLast(B, id) == Some(B[id].content)

GetContent(B, id) == <<B[id].content>>

\* Map::iter with MapIter::next, run to the end: an entry whose content has no
\* last value is skipped.
RECURSIVE IterNext(_, _)
IterNext(B, es) ==
    IF es = <<>> THEN <<>>
    ELSE LET content == GetLast(B, Head(es).item)
         IN  IF content # None
             THEN <<<<Head(es).key, content[1]>>>> \o IterNext(B, Tail(es))
             ELSE IterNext(B, Tail(es))

MapIter(B, doc, order) == IterNext(B, MapEntries(doc, order))

\* Map::values with Values::next, run to the end.
MapValues(B, doc, order) ==
    LET es == MapEntries(doc, order) IN [i \in 1..Len(es) |-> GetContent(B, es[i].item)]

\* The pointers the loop of Map::clear hands to Transaction::delete: the entry
\* of every key of the entry index, tombstoned or not.
ClearVisits(doc) == {doc.map[k][1] : k \in {x \in Keys : doc.map[x] # None}}

\* Any::Null
AnyNull == 0

\* Value::to_json of a value written by Map::insert with a primitive: the Any
\* the value wraps.
ValueToJson(v) == v

\* Map::to_json: the loop over the entry index in `order`, res the HashMap
\* built so far.
RECURSIVE ToJsonFrom(_, _, _, _)
ToJsonFrom(B, doc, order, res) ==
    IF order = <<>> THEN res
    ELSE LET k == Head(order)
         IN  IF doc.map[k] # None /\ ~IsDeleted(doc, doc.map[k][1])
             THEN LET last == GetLast(B, doc.map[k][1])
                      any == IF last # None THEN ValueToJson(last[1]) ELSE AnyNull
                  IN  ToJsonFrom(B, doc, Tail(order), Extend(res, k, any))
             ELSE ToJsonFrom(B, doc, Tail(order), res)

ToJson(B, doc, order) == ToJsonFrom(B, doc, order, <<>>)

\* ------------------------------------------------------------- updates
\* Doc::encode_state_as_update: the blocks the remote state vector lacks and
\* the whole delete set of the store.
EncodeStateAsUpdate(doc, sv) ==
    [blocks |-> {id \in ItemsOf(doc) : id[2] >= sv[id[1]]},
     ds |-> doc.deleted]

\* The first pending block of client c, or the block it depends on.
RECURSIVE Resolve(_, _, _, _)
Resolve(B, doc, pending, c) ==
    LET mine == {id \in pending : id[1] = c}
        id == CHOOSE x \in mine : \A y \in mine : x[2] <= y[2]
    IN  IF B[id].origin # None /\ B[id].origin[1] \notin ItemsOf(doc)
        THEN Resolve(B, doc, pending, B[id].origin[1][1])
        ELSE id

\* Update::integrate: clients from the greatest id down, each client's blocks
\* in clock order, a block's missing origin first.
RECURSIVE IntegrateBlocks(_, _, _)
IntegrateBlocks(B, doc, pending) ==
    IF pending = {} THEN doc
    ELSE LET top == CHOOSE c \in {x[1] : x \in pending} :
                        \A x \in pending : x[1] <= c
             id == Resolve(B, doc, pending, top)
             l == IF B[id].origin = None THEN 0
                  ELSE IndexOf(doc.list[B[id].key], B[id].origin[1])
             r == Integrate(B, doc, id, l)
             d == IF r.delete THEN TxnDelete(B, r.doc, id) ELSE r.doc
         IN  IntegrateBlocks(B, d, pending \ {id})

\* The update's delete set, applied to the blocks the store holds.
ApplyDeleteSet(B, doc, ds) ==
    LET hit == {id \in ds \cap ItemsOf(doc) : ~IsDeleted(doc, id)}
    IN  [doc EXCEPT !.deleted = @ \cup hit,
                    !.ds = @ \cup hit,
                    !.changed = @ \cup {B[id].key : id \in hit}]

\* Transaction::apply_update
ApplyUpdate(B, doc, u) == ApplyDeleteSet(B, IntegrateBlocks(B, doc, u.blocks), u.ds)

\* ---------------------------------------------------------------- events
HasAdded(doc, id) == id[2] >= doc.before[id[1]]

HasDeleted(doc, id) == id \in doc.ds

Inserted(new) == [tag |-> "Inserted", old |-> None, new |-> Some(new)]
Updated(old, new) == [tag |-> "Updated", old |-> Some(old), new |-> Some(new)]
Removed(old) == [tag |-> "Removed", old |-> Some(old), new |-> None]

\* types::event_keys for one key: None, or Some(EntryChange).
KeyChange(B, doc, k) ==
    IF doc.map[k] = None THEN None
    ELSE LET chain == doc.list[k]
             item == doc.map[k][1]
             i == IndexOf(chain, item)
             olds == {j \in 1..(i - 1) : ~HasAdded(doc, chain[j])}
             prev == IF olds = {} THEN None
                     ELSE Some(chain[CHOOSE j \in olds : \A x \in olds : x <= j])
             prevDeleted == prev # None /\ HasDeleted(doc, prev[1])
         IN  IF HasAdded(doc, item)
             THEN IF HasDeleted(doc, item)
                  THEN IF prevDeleted THEN Some(Removed(B[prev[1]].content))
                       ELSE None
                  ELSE IF prevDeleted
                       THEN Some(Updated(B[prev[1]].content, B[item].content))
                       ELSE Some(Inserted(B[item].content))
             ELSE IF HasDeleted(doc, item) THEN Some(Removed(B[item].content))
                  ELSE None

\* types::event_keys: the classified changes of the touched keys.
event_keys(B, doc, subs) ==
    [k \in {x \in subs : KeyChange(B, doc, x) # None} |-> KeyChange(B, doc, k)[1]]

\* MapEvent::keys, mutated: the raw touched keys are all reported, a key
\* without a classified change as removed.
KeysOfRaw(B, doc, subs) ==
    [k \in subs |-> IF KeyChange(B, doc, k) # None THEN KeyChange(B, doc, k)[1]
                    ELSE [tag |-> "Removed", old |-> None, new |-> None]]

\* MapEvent::keys, mutated: the changes are classified against an empty
\* state at the start of the transaction.
KeysIgnoreBefore(B, doc, subs) ==
    event_keys(B, [doc EXCEPT !.before = [c \in Clients |-> 0]], subs)

\* MapEvent::keys on a pending event (the first call).
EventKeysOf(B, doc, subs) == event_keys(B, doc, subs)

\* MapEvent.keys, a Result: Err(raw touched keys) while pending, Ok(classified
\* changes) once computed.
Err(raw) == [ok |-> FALSE, raw |-> raw, map |-> <<>>]

Ok(changes) == [ok |-> TRUE, raw |-> {}, map |-> changes]

\* MapEvent::new
MapEventNew(c, key_changes) == [target |-> c, keys |-> Err(key_changes)]

\* MapEvent::keys, mutated: the computed changes are returned and not stored.
KeysNeverCached(B, doc, e) ==
    [event |-> e, ret |-> EventKeysOf(B, doc, e.keys.raw), computed |-> TRUE]

\* MapEvent::keys: the stored changes, or on a pending event the changes
\* event_keys computes, stored as Ok.
MapEventKeys(B, doc, e) ==
    IF e.keys.ok
    THEN [event |-> e, ret |-> e.keys.map, computed |-> FALSE]
    ELSE LET subs == EventKeysOf(B, doc, e.keys.raw)
         IN  [event |-> [e EXCEPT !.keys = Ok(subs)], ret |-> subs, computed |-> TRUE]

\* Transaction::commit: the observers of a touched branch get one MapEvent (the
\* callback reads its keys), then the transaction's bookkeeping is dropped.
Commit(B, doc) ==
    [doc EXCEPT
       !.event = IF doc.subs # {} /\ doc.changed # {}
                 THEN Some([raw |-> doc.changed,
                            keys |-> EventKeysOf(B, doc, doc.changed)])
                 ELSE None,
       !.before = StateVector(doc),
       !.ds = {},
       !.changed = {},
       !.snap = [k \in Keys |-> Get(B, doc, k)]]

\* ------------------------------------------------------------- observers
\* The elements of a set of numbers in ascending order.
RECURSIVE Ascending(_)
Ascending(S) ==
    IF S = {} THEN <<>>
    ELSE LET m == CHOOSE x \in S : \A y \in S : x <= y
         IN  <<m>> \o Ascending(S \ {m})

Count(s, x) == Cardinality({i \in 1..Len(s) : s[i] = x})

\* Map::observe, mutated: the callback is subscribed whatever the slot's type.
ObserveAnySlot(doc) ==
    [doc |-> [doc EXCEPT !.subs = @ \cup {doc.seq}, !.seq = @ + 1],
     ret |-> Some(doc.seq), panic |-> FALSE]

\* Map::observe: the branch's slot is created map-typed when absent
\* (get_or_insert_with); the callback is subscribed under the handler's next
\* id, or the call panics on a slot of another collection type.
Observe(doc) ==
    LET slot == IF doc.slot = "none" THEN "map" ELSE doc.slot
    IN  IF slot = "map"
        THEN [doc |-> [doc EXCEPT !.slot = "map",
                                  !.subs = @ \cup {doc.seq},
                                  !.seq = @ + 1],
              ret |-> Some(doc.seq), panic |-> FALSE]
        ELSE [doc |-> doc, ret |-> None, panic |-> TRUE]

\* Map::unobserve, mutated: the handler keeps the callback.
UnobserveKeepsCallback(doc, id) == doc

\* Map::unobserve
Unobserve(doc, id) ==
    IF doc.slot = "map" THEN [doc EXCEPT !.subs = @ \ {id}] ELSE doc

\* Array::observe through an array handle on the same branch: the slot is
\* created array-typed.
ObserveAsArray(doc) ==
    IF doc.slot = "none" THEN [doc EXCEPT !.slot = "array"] ELSE doc

\* Observers::publish, mutated: the callbacks are invoked once per touched key.
PublishPerKey(doc) ==
    IF doc.changed # {} /\ doc.slot = "map"
    THEN Ascending(doc.subs) \o
         (IF Cardinality(doc.changed) > 1 THEN Ascending(doc.subs) ELSE <<>>)
    ELSE <<>>

\* Observers::publish in Transaction::commit: the callbacks invoked for a
\* branch the transaction touched, each with the one MapEvent of the commit.
Publish(doc) ==
    IF doc.changed # {} /\ doc.slot = "map"
    THEN Ascending(doc.subs)
    ELSE <<>>

\* ----------------------------------------------------------- state machine
\* Doc::with_client_id and get_map("map"): an empty store, an empty root map.
NewDoc ==
    [list |-> [k \in Keys |-> <<>>],
     map |-> [k \in Keys |-> None],
     deleted |-> {},
     before |-> [c \in Clients |-> 0],
     ds |-> {},
     changed |-> {},
     snap |-> [k \in Keys |-> None],
     subs |-> {},
     slot |-> "none",
     seq |-> 0,
     event |-> None]

NoOp == [op |-> "none", client |-> 0, key |-> "", arg |-> None, val |-> None]

\* A branch of the nested document: the items whose parent it is (numbered per
\* branch), the item that holds it (none for the root type) and its deep
\* observers.
NewBranch(parent) == [doc |-> NewDoc, blocks |-> <<>>, parent |-> parent, deep |-> {}]

\* doc.transact().get_map("map") of observe_deep: the root map alone.
NewNest == <<NewBranch(None)>>

Init ==
    /\ blocks = <<>>
    /\ docs = [c \in Clients |-> NewDoc]
    /\ ret = NoOp
    /\ removed = {}
    /\ phase = "edit"
    /\ log = [c \in Clients |-> <<>>]
    /\ fired = <<>>
    /\ mapEvent = None
    /\ nest = NewNest

\* The end of the operation's transaction scope: with `auto` the transaction
\* is dropped (committed) right after the call, as in the fuzzy test.
Scope(B, doc, auto) == IF auto THEN Commit(B, doc) ELSE doc

\* The caller keeps what the call returns (map_len_remove) or drops it (the
\* fuzzy test's closures, insert_and_remove_events).
Returned(keep, r) == IF keep THEN r ELSE NoOp

\* Ids of the live entries of the entry index: what a remove()/clear() of
\* these keys tombstones.
LiveEntries(doc, ks) ==
    {doc.map[k][1] : k \in {x \in ks : contains(doc, x)}}

InsertAct(c, k, v, auto, keep) ==
    LET r == Insert(blocks, docs[c], c, k, v)
    IN  /\ blocks' = r.blocks
        /\ docs' = [docs EXCEPT ![c] = Scope(r.blocks, r.doc, auto)]
        /\ ret' = Returned(keep, [op |-> "insert", client |-> c, key |-> k,
                                   arg |-> Some(v), val |-> r.ret])
        /\ UNCHANGED removed

RemoveAct(c, k, auto, keep) ==
    LET r == Remove(blocks, docs[c], k)
    IN  /\ docs' = [docs EXCEPT ![c] = Scope(blocks, r.doc, auto)]
        /\ ret' = Returned(keep, [op |-> "remove", client |-> c, key |-> k,
                                   arg |-> None, val |-> r.ret])
        /\ removed' = removed \cup (docs'[c].deleted \ docs[c].deleted)
        /\ UNCHANGED blocks

ClearAct(c, auto, keep) ==
    /\ docs' = [docs EXCEPT ![c] = Scope(blocks, Clear(blocks, docs[c]), auto)]
    /\ ret' = Returned(keep, [op |-> "clear", client |-> c, key |-> "",
                               arg |-> None, val |-> None])
    /\ removed' = removed \cup (docs'[c].deleted \ docs[c].deleted)
    /\ UNCHANGED blocks

\* r applies s's state as an update: the exchange of the tests.
SyncAct(s, r, auto, keep) ==
    LET u == EncodeStateAsUpdate(docs[s], StateVector(docs[r]))
    IN  /\ docs' = [docs EXCEPT ![r] = Scope(blocks, ApplyUpdate(blocks, docs[r], u), auto)]
        /\ ret' = Returned(keep, [op |-> "sync", client |-> r, key |-> "",
                                   arg |-> Some(s), val |-> None])
        /\ UNCHANGED <<blocks, removed>>

\* s holds a block or a tombstone r lacks.
Behind(s, r) ==
    \/ ItemsOf(docs[s]) \ ItemsOf(docs[r]) # {}
    \/ docs[s].deleted \ docs[r].deleted # {}

NumItems == Cardinality(DOMAIN blocks)

\* The bound on explicit removals: a call that tombstones nothing is always
\* allowed, one that tombstones entries only while fewer than max are removed.
MayTombstone(c, ks, max) ==
    LiveEntries(docs[c], ks) = {} \/ Cardinality(removed) < max

\* A value no other write carries: the strings the fuzzy test draws.
Fresh(id) == 10 * id[1] + id[2]

\* --- Spec: replicas edit and exchange freely, one transaction per call.
TxInsert == \E c \in Clients, k \in Keys :
    NumItems < MaxItems /\ InsertAct(c, k, Fresh(NextId(docs[c], c)), TRUE, FALSE) /\ UNCHANGED <<phase, log, fired, mapEvent, nest>>

TxRemove == \E c \in Clients, k \in Keys :
    MayTombstone(c, {k}, MaxRemoved) /\ RemoveAct(c, k, TRUE, FALSE) /\ UNCHANGED <<phase, log, fired, mapEvent, nest>>

TxClear == \E c \in Clients :
    MayTombstone(c, Keys, MaxRemoved) /\ ClearAct(c, TRUE, FALSE) /\ UNCHANGED <<phase, log, fired, mapEvent, nest>>

TxSync == \E s \in Clients, r \in Clients :
    s # r /\ Behind(s, r) /\ SyncAct(s, r, TRUE, FALSE) /\ UNCHANGED <<phase, log, fired, mapEvent, nest>>

Next == TxInsert \/ TxRemove \/ TxClear \/ TxSync

Spec == Init /\ [][Next]_vars

\* --- SpecRounds: rounds of concurrent edits, each followed by a full
\* exchange (exchange_updates), as in the conflict tests.
Synced ==
    \A c \in Clients :
        /\ ItemsOf(docs[c]) = DOMAIN blocks
        /\ removed \subseteq docs[c].deleted

Logged(c, e) == log' = [log EXCEPT ![c] = Append(@, e)]

RoundInsert == \E c \in Clients, k \in Keys :
    /\ phase = "edit"
    /\ NumItems < MaxRoundItems
    /\ InsertAct(c, k, Fresh(NextId(docs[c], c)), TRUE, FALSE)
    /\ Logged(c, [op |-> "insert", key |-> k, ids |-> {NextId(docs[c], c)}])
    /\ UNCHANGED <<phase, fired, mapEvent, nest>>

RoundRemove == \E c \in Clients, k \in Keys :
    /\ phase = "edit"
    /\ Cardinality(removed) < MaxRoundRemoved
    /\ contains(docs[c], k)
    /\ RemoveAct(c, k, TRUE, FALSE)
    /\ Logged(c, [op |-> "remove", key |-> k, ids |-> removed' \ removed])
    /\ UNCHANGED <<phase, fired, mapEvent, nest>>

RoundClear == \E c \in Clients :
    /\ phase = "edit"
    /\ Cardinality(removed) < MaxRoundRemoved
    /\ LiveEntries(docs[c], Keys) # {}
    /\ ClearAct(c, TRUE, FALSE)
    /\ Logged(c, [op |-> "clear", key |-> "", ids |-> removed' \ removed])
    /\ UNCHANGED <<phase, fired, mapEvent, nest>>

EndEdit ==
    /\ phase = "edit"
    /\ \E c \in Clients : log[c] # <<>>
    /\ phase' = "exchange"
    /\ UNCHANGED <<blocks, docs, ret, removed, log, fired, mapEvent, nest>>

RoundSync == \E s \in Clients, r \in Clients :
    /\ phase = "exchange"
    /\ s # r
    /\ Behind(s, r)
    /\ SyncAct(s, r, TRUE, FALSE)
    /\ UNCHANGED <<phase, log, fired, mapEvent, nest>>

EndRound ==
    /\ phase = "exchange"
    /\ Synced
    /\ phase' = "edit"
    /\ log' = [c \in Clients |-> <<>>]
    /\ UNCHANGED <<blocks, docs, ret, removed, fired, mapEvent, nest>>

NextRounds ==
    RoundInsert \/ RoundRemove \/ RoundClear \/ EndEdit \/ RoundSync \/ EndRound

SpecRounds == Init /\ [][NextRounds]_vars

\* --- SpecTxn: explicit transactions; several calls share one transaction,
\* the caller keeps what they return, observers see the commit.
\* Map::observe was called on the replicas' maps before the first edit, as in
\* insert_and_remove_events.
InitTxn ==
    /\ blocks = <<>>
    /\ docs = [c \in Clients |-> IF c \in TxnClients
                                  THEN [NewDoc EXCEPT !.slot = "map", !.subs = {0}, !.seq = 1]
                                  ELSE NewDoc]
    /\ ret = NoOp
    /\ removed = {}
    /\ phase = "edit"
    /\ log = [c \in Clients |-> <<>>]
    /\ fired = <<>>
    /\ mapEvent = None
    /\ nest = NewNest

OpInsert == \E c \in TxnClients, k \in Keys, v \in Values :
    NumItems < MaxTxnItems /\ InsertAct(c, k, v, FALSE, FALSE) /\ UNCHANGED <<phase, log, fired, mapEvent, nest>>

OpRemove == \E c \in TxnClients, k \in Keys :
    /\ MayTombstone(c, {k}, MaxTxnRemoved)
    /\ RemoveAct(c, k, FALSE, FALSE)
    /\ UNCHANGED <<phase, log, fired, mapEvent, nest>>

OpClear == \E c \in TxnClients :
    /\ MayTombstone(c, Keys, MaxTxnRemoved)
    /\ ClearAct(c, FALSE, FALSE)
    /\ UNCHANGED <<phase, log, fired, mapEvent, nest>>

OpSync == \E s \in TxnClients, r \in TxnClients :
    /\ s # r
    /\ Behind(s, r)
    /\ SyncAct(s, r, FALSE, FALSE)
    /\ UNCHANGED <<phase, log, fired, mapEvent, nest>>

\* The transaction goes out of scope.
CommitTxn == \E c \in TxnClients :
    /\ docs[c].changed # {}
    /\ docs' = [docs EXCEPT ![c] = Commit(blocks, docs[c])]
    /\ ret' = NoOp
    /\ UNCHANGED <<blocks, removed, phase, log, fired, mapEvent, nest>>

NextTxn == OpInsert \/ OpRemove \/ OpClear \/ OpSync \/ CommitTxn

SpecTxn == InitTxn /\ [][NextTxn]_vars

\* --- SpecCalls: the callers keep what insert() and remove() return, one
\* transaction per call (map_len_remove, map_clear).
CallInsert == \E c \in TxnClients, k \in Keys, v \in Values :
    NumItems < MaxCallItems /\ InsertAct(c, k, v, TRUE, TRUE) /\ UNCHANGED <<phase, log, fired, mapEvent, nest>>

CallRemove == \E c \in TxnClients, k \in Keys :
    /\ MayTombstone(c, {k}, MaxCallRemoved)
    /\ RemoveAct(c, k, TRUE, TRUE)
    /\ UNCHANGED <<phase, log, fired, mapEvent, nest>>

CallClear == \E c \in TxnClients :
    /\ MayTombstone(c, Keys, MaxCallRemoved)
    /\ ClearAct(c, TRUE, TRUE)
    /\ UNCHANGED <<phase, log, fired, mapEvent, nest>>

CallSync == \E s \in TxnClients, r \in TxnClients :
    /\ s # r
    /\ Behind(s, r)
    /\ SyncAct(s, r, TRUE, TRUE)
    /\ UNCHANGED <<phase, log, fired, mapEvent, nest>>

NextCalls == CallInsert \/ CallRemove \/ CallClear \/ CallSync

SpecCalls == Init /\ [][NextCalls]_vars

\* --- SpecObs: one replica whose map is observed; callbacks are registered
\* and removed while transactions run.
ObsClient == 1

ObsInsert == \E k \in Keys, v \in Values :
    /\ NumItems < MaxObsItems
    /\ InsertAct(ObsClient, k, v, FALSE, FALSE)
    /\ fired' = <<>>
    /\ UNCHANGED <<phase, log, mapEvent, nest>>

ObsRemove == \E k \in Keys :
    /\ MayTombstone(ObsClient, {k}, MaxObsRemoved)
    /\ RemoveAct(ObsClient, k, FALSE, FALSE)
    /\ fired' = <<>>
    /\ UNCHANGED <<phase, log, mapEvent, nest>>

\* The transaction goes out of scope, with or without changes.
ObsCommit ==
    /\ docs' = [docs EXCEPT ![ObsClient] = Commit(blocks, docs[ObsClient])]
    /\ fired' = Publish(docs[ObsClient])
    /\ ret' = [NoOp EXCEPT !.op = "commit", !.client = ObsClient]
    /\ UNCHANGED <<blocks, removed, phase, log, mapEvent, nest>>

ObsObserve ==
    LET r == Observe(docs[ObsClient])
    IN  /\ docs[ObsClient].seq < MaxSubs
        /\ docs' = [docs EXCEPT ![ObsClient] = r.doc]
        /\ ret' = [NoOp EXCEPT !.op = IF r.panic THEN "panic" ELSE "observe",
                               !.client = ObsClient, !.val = r.ret]
        /\ fired' = <<>>
        /\ UNCHANGED <<blocks, removed, phase, log, mapEvent, nest>>

\* unobserve(id), or the drop of the Subscription that holds id; id may be one
\* the handler never issued.
ObsUnobserve == \E id \in 0..MaxSubs :
    /\ docs' = [docs EXCEPT ![ObsClient] = Unobserve(docs[ObsClient], id)]
    /\ ret' = [NoOp EXCEPT !.op = "unobserve", !.client = ObsClient, !.arg = Some(id)]
    /\ fired' = <<>>
    /\ UNCHANGED <<blocks, removed, phase, log, mapEvent, nest>>

ObsObserveAsArray ==
    /\ docs[ObsClient].slot = "none"
    /\ docs' = [docs EXCEPT ![ObsClient] = ObserveAsArray(docs[ObsClient])]
    /\ ret' = [NoOp EXCEPT !.op = "observe_array", !.client = ObsClient]
    /\ fired' = <<>>
    /\ UNCHANGED <<blocks, removed, phase, log, mapEvent, nest>>

NextObs ==
    ObsInsert \/ ObsRemove \/ ObsCommit \/ ObsObserve \/ ObsUnobserve \/ ObsObserveAsArray

SpecObs == Init /\ [][NextObs]_vars

\* --- SpecEvent: the commit of an observed replica hands one MapEvent to the
\* callbacks, which read its keys any number of times and may write to the
\* map through a transaction of their own.
EvInsert == \E k \in Keys, v \in Values :
    /\ mapEvent = None
    /\ NumItems < MaxEvItems
    /\ InsertAct(ObsClient, k, v, FALSE, FALSE)
    /\ UNCHANGED <<phase, log, fired, mapEvent, nest>>

EvRemove == \E k \in Keys :
    /\ mapEvent = None
    /\ MayTombstone(ObsClient, {k}, MaxEvRemoved)
    /\ RemoveAct(ObsClient, k, FALSE, FALSE)
    /\ UNCHANGED <<phase, log, fired, mapEvent, nest>>

\* Transaction::commit reaches the touched branch: MapEvent::new.
EvPublish ==
    /\ mapEvent = None
    /\ docs[ObsClient].changed # {}
    /\ docs[ObsClient].subs # {}
    /\ mapEvent' = Some(MapEventNew(ObsClient, docs[ObsClient].changed))
    /\ ret' = [NoOp EXCEPT !.op = "publish", !.client = ObsClient]
    /\ UNCHANGED <<blocks, docs, removed, phase, log, fired, nest>>

\* A callback calls e.keys(txn).
EvKeys ==
    /\ mapEvent # None
    /\ LET r == MapEventKeys(blocks, docs[ObsClient], mapEvent[1])
       IN  /\ mapEvent' = Some(r.event)
           /\ ret' = [NoOp EXCEPT !.op = "keys", !.client = ObsClient,
                                  !.arg = Some(r.computed), !.val = Some(r.ret)]
    /\ UNCHANGED <<blocks, docs, removed, phase, log, fired, nest>>

\* A callback writes to the map through another transaction on the same store:
\* the store changes, the bookkeeping of the committing transaction does not.
EvCallbackInsert == \E k \in Keys, v \in Values :
    /\ mapEvent # None
    /\ NumItems < MaxEvItems
    /\ LET r == Insert(blocks, docs[ObsClient], ObsClient, k, v)
       IN  /\ blocks' = r.blocks
           /\ docs' = [docs EXCEPT ![ObsClient] =
                          [r.doc EXCEPT !.ds = docs[ObsClient].ds,
                                        !.changed = docs[ObsClient].changed]]
    /\ ret' = [NoOp EXCEPT !.op = "callback_insert", !.client = ObsClient]
    /\ UNCHANGED <<removed, phase, log, fired, mapEvent, nest>>

\* The callbacks have returned: the event is dropped, the commit completes.
EvEnd ==
    /\ mapEvent # None
    /\ mapEvent' = None
    /\ docs' = [docs EXCEPT ![ObsClient] =
                   [Commit(blocks, docs[ObsClient]) EXCEPT
                      !.event = IF mapEvent[1].keys.ok
                                THEN Some([raw |-> docs[ObsClient].changed,
                                           keys |-> mapEvent[1].keys.map])
                                ELSE None]]
    /\ ret' = [NoOp EXCEPT !.op = "commit", !.client = ObsClient]
    /\ UNCHANGED <<blocks, removed, phase, log, fired, nest>>

NextEvent == EvInsert \/ EvRemove \/ EvPublish \/ EvKeys \/ EvCallbackInsert \/ EvEnd

SpecEvent == InitTxn /\ [][NextEvent]_vars

\* ------------------------------------------------------- nested documents
\* The content of an item of the nested document: a primitive (ItemContent::Any)
\* or a nested map (ItemContent::Type), named by its index in `nest`.
Primitive(v) == [tag |-> "any", v |-> v]

YMap(n) == [tag |-> "ymap", v |-> n]

\* Transaction::add_changed_type: changes of a branch are recorded for the
\* root type, and for a nested type whose item is live and older than the
\* transaction.
Trigger(N, n) ==
    \/ N[n].parent = None
    \/ LET p == N[n].parent[1]
       IN  /\ ~HasAdded(N[p.branch].doc, p.item)
           /\ ~IsDeleted(N[p.branch].doc, p.item)

TouchBranch(N, n, doc2) ==
    IF Trigger(N, n) THEN doc2 ELSE [doc2 EXCEPT !.changed = N[n].doc.changed]

\* The nested maps held by the items of branch b that doc2 has tombstoned and
\* b's document had not.
TypesDeleted(N, b, B2, doc2) ==
    {B2[id].content.v :
        id \in {x \in doc2.deleted \ N[b].doc.deleted : B2[x].content.tag = "ymap"}}

\* Transaction::delete of an item whose content is a type: the type leaves the
\* changed set and all its entries are deleted, nested types included.
RECURSIVE DeleteTypes(_, _)
DeleteTypes(N, dead) ==
    IF dead = {} THEN N
    ELSE LET n == CHOOSE x \in dead : TRUE
             d0 == [N[n].doc EXCEPT !.changed = {}]
             d1 == [DeleteAll(N[n].blocks, d0, {k \in Keys : d0.map[k] # None})
                       EXCEPT !.changed = {}]
             N1 == [N EXCEPT ![n].doc = d1]
         IN  DeleteTypes(N1, (dead \ {n}) \cup TypesDeleted(N, n, N[n].blocks, d1))

\* The nested document after a call left branch b with items B2 and state doc2.
Settle(N, b, doc2, B2) ==
    DeleteTypes([N EXCEPT ![b].doc = TouchBranch(N, b, doc2), ![b].blocks = B2],
                TypesDeleted(N, b, B2, doc2))

\* Map::insert of a primitive on the map of branch b.
NestInsert(N, b, c, k, v) ==
    LET r == Insert(N[b].blocks, N[b].doc, c, k, Primitive(v))
    IN  [nest |-> Settle(N, b, r.doc, r.blocks), ret |-> r.ret]

\* Map::remove on the map of branch b.
NestRemove(N, b, k) ==
    LET r == Remove(N[b].blocks, N[b].doc, k)
    IN  [nest |-> Settle(N, b, r.doc, N[b].blocks), ret |-> r.ret]

\* PrelimMap::integrate, mutated: the loop stops after the first staged pair.
PrelimFirstPairOnly(N, inner, c, staged) ==
    IF DOMAIN staged = {} THEN N
    ELSE LET k == CHOOSE x \in DOMAIN staged : TRUE
         IN  NestInsert(N, inner, c, k, staged[k]).nest

\* PrelimMap::integrate: every staged pair is inserted into the new map.
RECURSIVE PrelimIntegrate(_, _, _, _)
PrelimIntegrate(N, inner, c, staged) ==
    IF DOMAIN staged = {} THEN N
    ELSE LET k == CHOOSE x \in DOMAIN staged : TRUE
         IN  PrelimIntegrate(NestInsert(N, inner, c, k, staged[k]).nest, inner, c,
                             [x \in DOMAIN staged \ {k} |-> staged[x]])

\* Map::insert of a PrelimMap on the map of branch b: into_content makes a new
\* empty branch, create_item integrates the item that holds it and then hands
\* the branch to PrelimMap::integrate.  `created` is the document in between.
InsertPrelim(N, b, c, k, staged) ==
    LET inner == Len(N) + 1
        holder == NextId(N[b].doc, c)
        r == Insert(N[b].blocks, N[b].doc, c, k, YMap(inner))
        N1 == Append(N, NewBranch(Some([branch |-> b, key |-> k, item |-> holder])))
        N2 == Settle(N1, b, r.doc, r.blocks)
    IN  [nest |-> PrelimIntegrate(N2, inner, c, staged), ret |-> r.ret,
         inner |-> inner, created |-> N2]

\* The type and the items that hold it, up to the root, are live.
RECURSIVE Attached(_, _)
Attached(N, n) ==
    IF N[n].parent = None THEN TRUE
    ELSE LET p == N[n].parent[1]
         IN  ~IsDeleted(N[p.branch].doc, p.item) /\ Attached(N, p.branch)

\* The branch and the branches above it.
RECURSIVE Ancestors(_, _)
Ancestors(N, n) ==
    IF N[n].parent = None THEN {n}
    ELSE {n} \cup Ancestors(N, N[n].parent[1].branch)

\* Branch::path(from, to): the keys of the items that hold the types from
\* `from` (exclusive) down to `to`.
RECURSIVE BranchPath(_, _, _)
BranchPath(N, from, to) ==
    IF to = from \/ N[to].parent = None THEN <<>>
    ELSE BranchPath(N, from, N[to].parent[1].branch) \o <<N[to].parent[1].key>>

\* MapEvent::path, mutated: the path is taken from the target up to itself.
PathFromTarget(N, e) == BranchPath(N, e.target, e.target)

\* MapEvent::path
MapEventPath(N, e) == BranchPath(N, e.current_target, e.target)

\* The event of branch n as MapEvent::new makes it, and as the deep
\* observers of branch d get it.
NestEvent(n) == [target |-> n, current_target |-> n]

DeepEvent(d, n) == [target |-> n, current_target |-> d]

ChangedBranches(N) == {n \in 1..Len(N) : N[n].doc.changed # {}}

\* The changed branches at or beneath branch d.
Beneath(N, d) == {n \in ChangedBranches(N) : d \in Ancestors(N, n)}

\* Transaction::commit, shallow observers, mutated: the callbacks of the
\* branches above a changed branch are called as well.
ShallowCallsBubble(N) ==
    UNION {{[kind |-> "observe", branch |-> n, sub |-> s, paths |-> {<<>>}] :
                s \in N[n].doc.subs} :
              n \in {x \in 1..Len(N) : Beneath(N, x) # {} /\ N[x].doc.slot = "map"}}

\* Transaction::commit, shallow observers: one call per callback of a changed
\* branch, with the branch's event.
ShallowCalls(N) ==
    UNION {{[kind |-> "observe", branch |-> n, sub |-> s,
             paths |-> {MapEventPath(N, NestEvent(n))}] : s \in N[n].doc.subs} :
              n \in {x \in ChangedBranches(N) : N[x].doc.slot = "map"}}

\* Transaction::commit, deep observers, mutated: one call per event.
DeepCallsPerEvent(N) ==
    UNION {{[kind |-> "deep", branch |-> d, sub |-> s,
             paths |-> {MapEventPath(N, DeepEvent(d, n))}] :
                s \in N[d].deep, n \in Beneath(N, d)} : d \in 1..Len(N)}

\* Transaction::commit, deep observers: every callback of a branch at or above
\* a changed branch is called once, with the events of the changed branches
\* beneath it.
DeepCalls(N) ==
    UNION {{[kind |-> "deep", branch |-> d, sub |-> s,
             paths |-> {MapEventPath(N, DeepEvent(d, n)) : n \in Beneath(N, d)}] :
                s \in N[d].deep} :
              d \in {x \in 1..Len(N) : Beneath(N, x) # {}}}

\* Transaction::commit on the nested document.
NestCommit(N) ==
    [n \in 1..Len(N) |-> [N[n] EXCEPT !.doc = Commit(N[n].blocks, N[n].doc)]]

\* --- SpecNested: one replica whose root map holds nested maps; the root map
\* has an observer and a deep observer from the start, as in observe_deep.
Staged == UNION {[ks -> Values] : ks \in SUBSET Keys}

NestItems(N) ==
    Cardinality(UNION {{<<n, id>> : id \in DOMAIN N[n].blocks} : n \in 1..Len(N)})

InitNested ==
    /\ blocks = <<>>
    /\ docs = [c \in Clients |-> NewDoc]
    /\ ret = NoOp
    /\ removed = {}
    /\ phase = "edit"
    /\ log = [c \in Clients |-> <<>>]
    /\ fired = {}
    /\ mapEvent = None
    /\ nest = <<[NewBranch(None) EXCEPT !.doc = Observe(NewDoc).doc, !.deep = {0}]>>

NestPut == \E b \in 1..Len(nest), k \in Keys, v \in Values :
    /\ Attached(nest, b)
    /\ NestItems(nest) < MaxNestItems
    /\ LET r == NestInsert(nest, b, ObsClient, k, v)
       IN  /\ nest' = r.nest
           /\ ret' = [NoOp EXCEPT !.op = "put", !.client = ObsClient]
    /\ fired' = {}
    /\ UNCHANGED <<blocks, docs, removed, phase, log, mapEvent>>

NestPutMap == \E b \in 1..Len(nest), k \in Keys, staged \in Staged :
    /\ Attached(nest, b)
    /\ Len(nest) < MaxBranches
    /\ NestItems(nest) + Cardinality(DOMAIN staged) < MaxNestItems
    /\ LET r == InsertPrelim(nest, b, ObsClient, k, staged)
       IN  /\ nest' = r.nest
           /\ ret' = [op |-> "put_map", client |-> ObsClient, key |-> k,
                      arg |-> Some([branch |-> b, staged |-> staged]), val |-> r.ret]
    /\ fired' = {}
    /\ UNCHANGED <<blocks, docs, removed, phase, log, mapEvent>>

NestDel == \E b \in 1..Len(nest), k \in Keys :
    /\ Attached(nest, b)
    /\ contains(nest[b].doc, k)
    /\ Cardinality(removed) < MaxNestRemoved
    /\ LET r == NestRemove(nest, b, k)
       IN  /\ nest' = r.nest
           /\ ret' = [NoOp EXCEPT !.op = "del", !.client = ObsClient]
    /\ removed' = removed \cup {<<b, nest[b].doc.map[k][1]>>}
    /\ fired' = {}
    /\ UNCHANGED <<blocks, docs, phase, log, mapEvent>>

\* observe on the handle of a nested map (map.get(k).to_ymap()).
NestObserve == \E b \in 2..Len(nest) :
    /\ Attached(nest, b)
    /\ nest[b].doc.seq < 1
    /\ nest' = [nest EXCEPT ![b].doc = Observe(@).doc]
    /\ ret' = [NoOp EXCEPT !.op = "observe", !.client = ObsClient]
    /\ fired' = {}
    /\ UNCHANGED <<blocks, docs, removed, phase, log, mapEvent>>

\* The transaction goes out of scope.
NestEnd ==
    /\ ChangedBranches(nest) # {}
    /\ nest' = NestCommit(nest)
    /\ fired' = ShallowCalls(nest) \cup DeepCalls(nest)
    /\ ret' = [NoOp EXCEPT !.op = "commit", !.client = ObsClient]
    /\ UNCHANGED <<blocks, docs, removed, phase, log, mapEvent>>

NextNested == NestPut \/ NestPutMap \/ NestDel \/ NestObserve \/ NestEnd

SpecNested == InitNested /\ [][NextNested]_vars

\* --- SpecApi: two replicas call every method of Map, the read methods
\* included; the callers keep what the calls return.
\* The orders in which a HashMap may hand out the keys of the entry index.
IterOrders == {<<"a", "b">>, <<"b", "a">>}

\* What a method taking &self hands back to its caller.
Result(c, op, k, arg, val) ==
    [op |-> op, client |-> c, key |-> k, arg |-> arg, val |-> val]

\* A method taking &self writes nothing.
ReadOnly == UNCHANGED <<blocks, docs, removed, phase, log, fired, mapEvent, nest>>

ApiInsert == \E c \in TxnClients, k \in Keys :
    /\ NumItems < MaxApiItems
    /\ InsertAct(c, k, Fresh(NextId(docs[c], c)), TRUE, TRUE)
    /\ UNCHANGED <<phase, log, fired, mapEvent, nest>>

ApiRemove == \E c \in TxnClients, k \in Keys :
    /\ MayTombstone(c, {k}, MaxApiRemoved)
    /\ RemoveAct(c, k, TRUE, TRUE)
    /\ UNCHANGED <<phase, log, fired, mapEvent, nest>>

\* clear(); arg: the entries the loop handed to Transaction::delete, val: the
\* entries the call tombstoned.
ApiClear == \E c \in TxnClients :
    /\ MayTombstone(c, Keys, MaxApiRemoved)
    /\ docs' = [docs EXCEPT ![c] = Scope(blocks, Clear(blocks, docs[c]), TRUE)]
    /\ ret' = [op |-> "clear", client |-> c, key |-> "",
               arg |-> Some(ClearVisits(docs[c])),
               val |-> Some(docs'[c].deleted \ docs[c].deleted)]
    /\ removed' = removed \cup (docs'[c].deleted \ docs[c].deleted)
    /\ UNCHANGED <<blocks, phase, log, fired, mapEvent, nest>>

ApiSync == \E s \in TxnClients, r \in TxnClients :
    /\ s # r
    /\ Behind(s, r)
    /\ SyncAct(s, r, TRUE, TRUE)
    /\ UNCHANGED <<phase, log, fired, mapEvent, nest>>

ApiGet == \E c \in TxnClients, k \in Keys :
    /\ ret' = Result(c, "get", k, None, Get(blocks, docs[c], k))
    /\ ReadOnly

ApiContains == \E c \in TxnClients, k \in Keys :
    /\ ret' = Result(c, "contains", k, None, Some(contains(docs[c], k)))
    /\ ReadOnly

ApiLen == \E c \in TxnClients :
    /\ ret' = Result(c, "len", "", None, Some(len(docs[c])))
    /\ ReadOnly

ApiKeys == \E c \in TxnClients, order \in IterOrders :
    /\ ret' = Result(c, "keys", "", Some(order), Some(MapKeys(docs[c], order)))
    /\ ReadOnly

ApiValues == \E c \in TxnClients, order \in IterOrders :
    /\ ret' = Result(c, "values", "", Some(order), Some(MapValues(blocks, docs[c], order)))
    /\ ReadOnly

ApiIter == \E c \in TxnClients, order \in IterOrders :
    /\ ret' = Result(c, "iter", "", Some(order), Some(MapIter(blocks, docs[c], order)))
    /\ ReadOnly

ApiToJson == \E c \in TxnClients, order \in IterOrders :
    /\ ret' = Result(c, "to_json", "", Some(order), Some(ToJson(blocks, docs[c], order)))
    /\ ReadOnly

NextApi ==
    \/ ApiInsert \/ ApiRemove \/ ApiClear \/ ApiSync
    \/ ApiGet \/ ApiContains \/ ApiLen
    \/ ApiKeys \/ ApiValues \/ ApiIter \/ ApiToJson

SpecApi == Init /\ [][NextApi]_vars

\* ================================================================ claims
ItemsOfKey(k) == {id \in DOMAIN blocks : blocks[id].key = k}

GetAt(c, k) == Get(blocks, docs[c], k)

\* C1: once every replica has received all updates of all others, get(key)
\* returns the same value (or none) on every replica and len() is the same on
\* every replica, whatever the order in which the updates were delivered.
C1_Convergence ==
    Synced =>
        \A c \in Clients, d \in Clients :
            /\ \A k \in Keys : GetAt(c, k) = GetAt(d, k)
            /\ len(docs[c]) = len(docs[d])

\* Two replicas wrote the same key without having seen each other's write,
\* one entry was removed, and every replica has received everything.
C1_Witness ==
    /\ Synced
    /\ removed # {}
    /\ \E i \in DOMAIN blocks, j \in DOMAIN blocks :
        /\ i[1] # j[1]
        /\ blocks[i].key = blocks[j].key
        /\ blocks[i].origin = None
        /\ blocks[j].origin = None

\* The exchange that follows a round of edits is complete.
Exchanged == phase = "exchange" /\ Synced

\* The operations on key k a replica made in the current round.
OpsOn(c, k) ==
    SelectSeq(log[c], LAMBDA e : e.key = k \/ (e.op = "clear" /\ \E i \in e.ids : blocks[i].key = k))

Writers(k) == {c \in Clients : \E n \in 1..Len(log[c]) : log[c][n].op = "insert" /\ log[c][n].key = k}

OnlyWrites(c, k) == \A n \in 1..Len(OpsOn(c, k)) : OpsOn(c, k)[n].op = "insert"

\* The id of the last write of key k by replica c in the current round.
LastWrite(c, k) ==
    LET w == SelectSeq(log[c], LAMBDA e : e.op = "insert" /\ e.key = k)
    IN  CHOOSE i \in w[Len(w)].ids : TRUE

\* C2: three replicas each write a value to the same key before any
\* exchange; after the full exchange every replica returns from get(key) the
\* same single value, and it is one of the three written values.
C2_ThreeWayLww ==
    \A k \in Keys :
        ( /\ Exchanged
          /\ \A c \in Clients : Len(OpsOn(c, k)) = 1 /\ OnlyWrites(c, k)
          /\ ItemsOfKey(k) = {LastWrite(c, k) : c \in Clients} )
        => \E i \in ItemsOfKey(k) :
               \A c \in Clients : GetAt(c, k) = Some(blocks[i].content)

\* Replicas 1, 2 and 3 each wrote key "a" once before any exchange, and the
\* exchange is complete.
C2_Witness ==
    /\ Exchanged
    /\ \A c \in Clients : Len(OpsOn(c, "a")) = 1 /\ OnlyWrites(c, "a")
    /\ ItemsOfKey("a") = {<<1, 0>>, <<2, 0>>, <<3, 0>>}

Max(S) == CHOOSE x \in S : \A y \in S : y <= x

\* C3: several replicas write the same key in the same round (none has seen
\* another's write); after the full exchange get(key) on every replica is the
\* last value written by the writer with the greatest client id.
C3_TieBreakByClientId ==
    \A k \in Keys :
        ( /\ Exchanged
          /\ Cardinality(Writers(k)) >= 2
          /\ \A c \in Clients : OnlyWrites(c, k) )
        => \A c \in Clients :
               GetAt(c, k) = Some(blocks[LastWrite(Max(Writers(k)), k)].content)

\* Client 1 wrote "a" once, client 2 twice and client 3 once, concurrently.
C3_Witness ==
    /\ Exchanged
    /\ \A c \in Clients : OnlyWrites(c, "a")
    /\ Len(OpsOn(1, "a")) = 1
    /\ Len(OpsOn(2, "a")) = 2
    /\ Len(OpsOn(3, "a")) = 1

\* C4: insert(key, value) returns what get(key) returned immediately before
\* the call (none if the key was absent or its entry tombstoned), and right
\* after the call, in the same transaction, get(key) is the inserted value.
C4_InsertReturnsPrevious ==
    [][\A c \in Clients, k \in Keys :
          (ret'.op = "insert" /\ ret'.client = c /\ ret'.key = k)
          => /\ ret'.val = Get(blocks, docs[c], k)
             /\ Get(blocks', docs'[c], k) = ret'.arg]_vars

\* An insert has just overwritten a live value with a different one.
C4_Witness ==
    /\ ret.op = "insert"
    /\ ret.val # None
    /\ ret.val # ret.arg

AllGets(B, doc) == [k \in Keys |-> Get(B, doc, k)]

\* C5: remove(key) on a live key returns the value get(key) returned before,
\* makes get(key) none and decreases len() by one; on an absent or already
\* removed key it returns none and leaves len() and every get() unchanged.
C5_Remove ==
    [][\A c \in Clients, k \in Keys :
          (ret'.op = "remove" /\ ret'.client = c /\ ret'.key = k)
          => IF Get(blocks, docs[c], k) # None
             THEN /\ ret'.val = Get(blocks, docs[c], k)
                  /\ Get(blocks', docs'[c], k) = None
                  /\ len(docs'[c]) = len(docs[c]) - 1
             ELSE /\ ret'.val = None
                  /\ len(docs'[c]) = len(docs[c])
                  /\ AllGets(blocks', docs'[c]) = AllGets(blocks, docs[c])]_vars

\* A remove of a tombstoned key has just returned none.
C5_Witness ==
    /\ ret.op = "remove"
    /\ ret.val = None
    /\ docs[ret.client].map[ret.key] # None
    /\ docs[ret.client].map[ret.key][1] \in removed

\* Every entry of the entry index is tombstoned and there is at least one.
Cleared(doc) ==
    /\ \E k \in Keys : doc.map[k] # None
    /\ \A k \in Keys : ~contains(doc, k)

\* C6: after clear(), len() = 0 and get(k) is none for every key; a replica
\* without prior state that applies the cleared document's full update also
\* has len() = 0 and get(k) none for every key.
C6_Clear ==
    [][\A c \in Clients :
          /\ (ret'.op = "clear" /\ ret'.client = c)
             => /\ len(docs'[c]) = 0
                /\ \A k \in Keys : Get(blocks', docs'[c], k) = None
          /\ (/\ ret'.op = "sync" /\ ret'.client = c
              /\ ItemsOf(docs[c]) = {}
              /\ Cleared(docs[ret'.arg[1]]))
             => /\ len(docs'[c]) = 0
                /\ \A k \in Keys : Get(blocks', docs'[c], k) = None
                /\ \A k \in Keys : docs'[c].map[k] = docs[ret'.arg[1]].map[k]]_vars

\* A replica that wrote nothing itself has just applied an update and holds
\* two entries, both tombstoned by the sender's clear.
C6_Witness ==
    /\ ret.op = "sync"
    /\ StateVector(docs[ret.client])[ret.client] = 0
    /\ \A k \in Keys : docs[ret.client].map[k] # None
    /\ \A k \in Keys : docs[ret.client].map[k][1] \in removed
    /\ len(docs[ret.client]) = 0

\* The last operation of replica c in the current round is clear().
ClearedLast(c) == log[c] # <<>> /\ log[c][Len(log[c])].op = "clear"

\* The keys whose entries replica c's last clear() tombstoned.
ClearedKeys(c) == {blocks[i].key : i \in log[c][Len(log[c])].ids}

\* The keys replica c wrote in the current round.
WrittenKeys(c) == {k \in Keys : c \in Writers(k)}

\* Every operation of replica c in the current round is a write.
WritesOnly(c) == \A n \in 1..Len(log[c]) : log[c][n].op = "insert"

\* Replica c cleared the map as its last operation of the round while the
\* other replicas only wrote, concurrently, keys that the clear emptied.
ClearVersusWrites(c) ==
    /\ Exchanged
    /\ ClearedLast(c)
    /\ \E d \in Clients \ {c} : log[d] # <<>>
    /\ \A d \in Clients \ {c} :
        WritesOnly(d) /\ WrittenKeys(d) \subseteq ClearedKeys(c)

AllEmpty ==
    \A r \in Clients : len(docs[r]) = 0 /\ \A k \in Keys : GetAt(r, k) = None

\* C7 as stated: one replica clears the map while other replicas concurrently
\* write the same keys; after the full exchange every replica is empty.
C7_ClearBeatsConcurrentWrites ==
    \A c \in Clients : ClearVersusWrites(c) => AllEmpty

\* C7, amended: the same, when the clearing replica has a greater client id
\* than every concurrent writer and had itself written, in the same round and
\* before clearing, every key the others wrote.
C7_ClearByGreatestWriter ==
    \A c \in Clients :
        ( /\ ClearVersusWrites(c)
          /\ \A d \in Clients \ {c} :
              log[d] # <<>> => (d < c /\ WrittenKeys(d) \subseteq WrittenKeys(c)) )
        => AllEmpty

\* Client 3 wrote "a" and cleared, clients 1 and 2 wrote "a" concurrently, and
\* the exchange is complete.
C7_Witness ==
    /\ ClearVersusWrites(3)
    /\ WrittenKeys(3) = {"a"}
    /\ WrittenKeys(1) = {"a"}
    /\ WrittenKeys(2) = {"a"}

\* C8: from a synchronized state several replicas overwrite a key
\* concurrently and the writer with the greatest client id then removes it;
\* after the full exchange get(key) is none on every replica.
C8_RemoveBeatsConcurrentWrites ==
    \A k \in Keys :
        ( /\ Exchanged
          /\ Cardinality(Writers(k)) >= 2
          /\ \A c \in Writers(k) \ {Max(Writers(k))} : OnlyWrites(c, k)
          /\ LET ops == OpsOn(Max(Writers(k)), k)
             IN  /\ ops[Len(ops)].op = "remove"
                 /\ ops[Len(ops) - 1].op = "insert" )
        => \A r \in Clients : GetAt(r, k) = None

\* Round two: on top of a synchronized entry of client 3, clients 1 and 2
\* overwrote "a" and client 2 then removed it.
C8_Witness ==
    /\ Exchanged
    /\ Writers("a") = {1, 2}
    /\ OnlyWrites(1, "a")
    /\ Len(OpsOn(2, "a")) = 2
    /\ OpsOn(2, "a")[2].op = "remove"
    /\ <<3, 0>> \in ItemsOfKey("a")

\* The change of key k between the values visible at the start and at the
\* end of a transaction: None when there is nothing to report.
Classified(old, new) ==
    IF old = None
    THEN IF new = None THEN None ELSE Some(Inserted(new[1]))
    ELSE IF new = None THEN Some(Removed(old[1])) ELSE Some(Updated(old[1], new[1]))

\* Replica c's transaction is committed by this step.
Commits(c) == docs[c].changed # {} /\ docs'[c].changed = {}

\* What an event has to report for key k of a document about to commit.
Expected(doc, k) ==
    IF k \in doc.changed THEN Classified(doc.snap[k], Get(blocks, doc, k)) ELSE None

Reported(ev, k) == IF k \in DOMAIN ev.keys THEN Some(ev.keys[k]) ELSE None

\* C9 as stated: for each key touched by the committed transaction the event
\* reports Inserted(new), Updated(old, new) or Removed(old) from the values
\* visible at the start and at the end of the transaction, one change per key.
C9_ChangeClassification ==
    [][\A c \in TxnClients :
          Commits(c) =>
              /\ docs'[c].event # None
              /\ \A k \in Keys :
                    Reported(docs'[c].event[1], k) = Expected(docs[c], k)]_vars

\* The transaction left the entry it found for key k in place.
SameEntry(doc, k) ==
    /\ doc.map[k] # None
    /\ ~HasAdded(doc, doc.map[k][1])
    /\ ~HasDeleted(doc, doc.map[k][1])

\* C9, amended: as stated, except that a touched key whose current entry is
\* still the live entry of the transaction's start is not reported.
C9_ChangeClassificationOfNewEntries ==
    [][\A c \in TxnClients :
          Commits(c) =>
              /\ docs'[c].event # None
              /\ \A k \in Keys :
                    Reported(docs'[c].event[1], k) =
                        IF SameEntry(docs[c], k) THEN None
                        ELSE Expected(docs[c], k)]_vars

\* A committed transaction found a value under "a", wrote "a" twice and the
\* event reports Updated(start value, last write), the start value differing
\* from the intermediate write.
C9_Witness ==
    \E c \in TxnClients :
        /\ docs[c].event # None
        /\ docs[c].changed = {}
        /\ "a" \in DOMAIN docs[c].event[1].keys
        /\ docs[c].event[1].keys["a"].tag = "Updated"
        /\ Len(docs[c].list["a"]) = 3
        /\ \A i \in Range(docs[c].list["a"]) : i[1] = c
        /\ docs[c].event[1].keys["a"].old = Some(blocks[<<c, 0>>].content)
        /\ docs[c].event[1].keys["a"].old # Some(blocks[<<c, 1>>].content)
        /\ docs[c].event[1].keys["a"].new = Some(blocks[<<c, 2>>].content)

\* The current entry of key k was created and tombstoned by the open
\* transaction, which found no value under k.
InsertedAndRemoved(doc, k) ==
    /\ doc.snap[k] = None
    /\ doc.map[k] # None
    /\ HasAdded(doc, doc.map[k][1])
    /\ HasDeleted(doc, doc.map[k][1])

\* C10: a key without a value at the start of the transaction that is
\* inserted and then removed inside it still yields an event at commit; the
\* key is in the raw touched set and not in the classified changes, which are
\* empty when it was the only touched key.
C10_NetZeroElision ==
    [][\A c \in TxnClients, k \in Keys :
          (Commits(c) /\ InsertedAndRemoved(docs[c], k)) =>
              /\ docs'[c].event # None
              /\ k \in docs'[c].event[1].raw
              /\ k \notin DOMAIN docs'[c].event[1].keys
              /\ (docs[c].changed = {k} => DOMAIN docs'[c].event[1].keys = {})]_vars

\* The replica's only item is its own, tombstoned, and the last event has the
\* key in the raw set and no classified change.
C10_Witness ==
    \E c \in TxnClients :
        /\ ItemsOf(docs[c]) = {<<c, 0>>}
        /\ IsDeleted(docs[c], <<c, 0>>)
        /\ docs[c].changed = {}
        /\ docs[c].event # None
        /\ docs[c].event[1].raw = {blocks[<<c, 0>>].key}
        /\ DOMAIN docs[c].event[1].keys = {}

\* C11: every registered map observer is invoked exactly once by the commit of
\* a transaction that touched the map, however many operations it held, and
\* no observer is invoked by any other step.
C11_OncePerCommit ==
    [][IF Commits(ObsClient)
       THEN \A s \in 0..MaxSubs :
               Count(fired', s) =
                   IF docs[ObsClient].slot = "map" /\ s \in docs[ObsClient].subs
                   THEN 1 ELSE 0
       ELSE fired' = <<>>]_vars

\* A transaction that wrote both keys was committed and the two registered
\* observers were invoked once each.
C11_Witness ==
    /\ ret.op = "commit"
    /\ docs[ObsClient].event # None
    /\ docs[ObsClient].event[1].raw = Keys
    /\ docs[ObsClient].subs = {0, 1}
    /\ fired = <<0, 1>>

\* The last step was a call of Map::observe.
ObserveCall == ret'.op \in {"observe", "panic"}

\* C14: observe on a branch without an observer slot creates a map-typed slot
\* and registers the callback; observe on a branch whose slot belongs to
\* another collection type panics: nothing is registered, nothing is returned.
C14_ObserveSlot ==
    [][ObserveCall =>
          /\ docs[ObsClient].slot = "none" =>
                /\ ret'.op = "observe"
                /\ docs'[ObsClient].slot = "map"
                /\ ret'.val # None
                /\ docs'[ObsClient].subs = {ret'.val[1]}
          /\ docs[ObsClient].slot = "array" =>
                /\ ret'.op = "panic"
                /\ ret'.val = None
                /\ docs'[ObsClient] = docs[ObsClient]
                /\ fired' = <<>>]_vars

\* observe panicked on a branch whose slot is array-typed; no callback is
\* registered.
C14_Witness ==
    /\ ret.op = "panic"
    /\ docs[ObsClient].slot = "array"
    /\ docs[ObsClient].subs = {}
    /\ docs[ObsClient].changed # {}

\* The subscription ids the handler issued and no longer holds.
Unsubscribed(doc) == (0..(doc.seq - 1)) \ doc.subs

\* C15: a callback that was unsubscribed (unobserve or drop) is invoked by no
\* later commit and stays unsubscribed, the callbacks still registered are
\* invoked by every commit that touched the map, and unobserve of an id the
\* handler does not hold, or on a branch without a map-typed slot, changes
\* nothing.
C15_Unobserve ==
    [][/\ \A s \in Unsubscribed(docs[ObsClient]) :
             /\ Count(fired', s) = 0
             /\ s \in Unsubscribed(docs'[ObsClient])
       /\ Commits(ObsClient) =>
             \A s \in docs[ObsClient].subs : Count(fired', s) = 1
       /\ ret'.op = "unobserve" =>
             /\ ret'.arg[1] \notin docs'[ObsClient].subs
             /\ docs'[ObsClient].subs = docs[ObsClient].subs \ {ret'.arg[1]}
             /\ (ret'.arg[1] \notin docs[ObsClient].subs \/ docs[ObsClient].slot # "map")
                    => docs'[ObsClient] = docs[ObsClient]]_vars

\* Of two registered callbacks the first was unsubscribed; a later commit
\* invoked the second one only.
C15_Witness ==
    /\ ret.op = "commit"
    /\ docs[ObsClient].seq = 2
    /\ docs[ObsClient].subs = {1}
    /\ fired = <<1>>

\* Replica c's open transaction started on an empty store and has brought c
\* to the state of replica s, all of whose items are s's own.
HoldsHistoryOf(c, s) ==
    /\ c # s
    /\ docs[c].before = [x \in Clients |-> 0]
    /\ ItemsOf(docs[c]) # {}
    /\ ItemsOf(docs[c]) = ItemsOf(docs[s])
    /\ \A id \in ItemsOf(docs[c]) : id[1] = s
    /\ docs[c].deleted = docs[s].deleted

\* C13: when a replica with no entries applies, in one transaction, another
\* replica's whole history, the event of the commit reports exactly the keys
\* whose history ends in a live value, each as Inserted(final value); a key
\* whose history ends deleted is not reported.
C13_RemoteUpdateEvents ==
    [][\A c \in TxnClients, s \in TxnClients :
          (HoldsHistoryOf(c, s) /\ Commits(c)) =>
              /\ docs'[c].event # None
              /\ docs'[c].event[1].keys =
                    [k \in {x \in Keys : GetAt(s, x) # None} |->
                        Inserted(GetAt(s, k)[1])]]_vars

\* Replica 2 has committed the history of replica 1: two writes of "a" and a
\* removed "b"; the event reports "a" alone, inserted with the second value.
C13_Witness ==
    /\ docs[2].changed = {}
    /\ docs[2].before = [x \in Clients |-> IF x = 1 THEN 3 ELSE 0]
    /\ Len(docs[2].list["a"]) = 2
    /\ IsDeleted(docs[2], docs[2].map["b"][1])
    /\ docs[2].event # None
    /\ docs[2].event[1].raw = Keys
    /\ DOMAIN docs[2].event[1].keys = {"a"}
    /\ docs[2].event[1].keys["a"] = Inserted(blocks[docs[2].map["a"][1]].content)
    /\ docs[1].before = docs[2].before

\* The orders in which a HashMap may hand out the keys of the entry index.
KeyOrders == {<<"a", "b">>, <<"b", "a">>}

LiveKeys(doc) == {k \in Keys : contains(doc, k)}

\* The sequence s lists the elements of S, each once.
ListsOnce(s, S) ==
    /\ Len(s) = Cardinality(S)
    /\ Range(s) = S

\* C17: in every state of every replica, keys(), iter() and values() end after
\* one element per key whose current entry is live (its key, its key and
\* value, its value) and yield nothing for a key whose entry is tombstoned.
C17_LiveIterators ==
    \A c \in Clients, order \in KeyOrders :
        LET ks == MapKeys(docs[c], order)
            kvs == MapIter(blocks, docs[c], order)
            vs == MapValues(blocks, docs[c], order)
        IN  /\ ListsOnce(ks, LiveKeys(docs[c]))
            /\ ListsOnce(kvs, {<<k, GetAt(c, k)[1]>> : k \in LiveKeys(docs[c])})
            /\ Len(vs) = Len(ks)
            /\ \A i \in 1..Len(vs) : vs[i] = <<GetAt(c, ks[i])[1]>>

\* A replica whose index holds a live entry for "a" and a tombstoned one for
\* "b": the iterators yield "a" alone.
C17_Witness ==
    \E c \in Clients :
        /\ contains(docs[c], "a")
        /\ docs[c].map["b"] # None
        /\ ~contains(docs[c], "b")
        /\ Len(docs[c].list["a"]) = 2
        /\ MapKeys(docs[c], <<"b", "a">>) = <<"a">>

\* C20: on every replica and for every key at most one item of the key's
\* version log is live, and a live item is the one the entry index holds;
\* every other item of the key is tombstoned.
C20_OneLiveEntryPerKey ==
    \A c \in Clients, k \in Keys :
        \A id \in Range(docs[c].list[k]) :
            ~IsDeleted(docs[c], id) => docs[c].map[k] = Some(id)

\* A replica holds three items for one key, written by two replicas; one of
\* them is live.
C20_Witness ==
    \E c \in Clients, k \in Keys :
        /\ Len(docs[c].list[k]) = 3
        /\ Cardinality({id[1] : id \in Range(docs[c].list[k])}) = 2
        /\ contains(docs[c], k)
        /\ Cardinality(Range(docs[c].list[k]) \ docs[c].deleted) = 1

\* C19: a MapEvent goes from pending to computed only, by the first call of
\* keys(); a computed event never changes, and every later call of keys()
\* returns the stored changes without computing them again, whatever has
\* happened to the map in between.
C19_KeysComputedOnce ==
    [][/\ (mapEvent # None /\ mapEvent' # None /\ mapEvent[1].keys.ok)
             => mapEvent' = mapEvent
       /\ (mapEvent # None /\ mapEvent' # None /\ mapEvent' # mapEvent)
             => /\ ret'.op = "keys"
                /\ ret'.arg = Some(TRUE)
                /\ mapEvent'[1].keys =
                      Ok(EventKeysOf(blocks, docs[ObsClient], mapEvent[1].keys.raw))
       /\ ret'.op = "keys"
             => /\ mapEvent'[1].keys.ok
                /\ ret'.val = Some(mapEvent'[1].keys.map)
                /\ ret'.arg = Some(~mapEvent[1].keys.ok)]_vars

\* keys() has returned the stored changes of a computed event although the map
\* was written in between: computing them now would give a different result.
C19_Witness ==
    /\ mapEvent # None
    /\ mapEvent[1].keys.ok
    /\ ret.op = "keys"
    /\ ret.arg = Some(FALSE)
    /\ ret.val = Some(mapEvent[1].keys.map)
    /\ ret.val[1] # EventKeysOf(blocks, docs[ObsClient], docs[ObsClient].changed)

\* The branches of the nested document in which the open transaction has
\* added or tombstoned an item.
MutatedBranches ==
    {n \in 1..Len(nest) :
        \E id \in ItemsOf(nest[n].doc) :
            HasAdded(nest[n].doc, id) \/ HasDeleted(nest[n].doc, id)}

ObserveCalls(calls) == {f \in calls : f.kind = "observe"}

\* C12: the commit of a transaction that has mutated a nested map only invokes
\* the callbacks registered with observe on that nested map, each once, and
\* none registered with observe on the parent map.
C12_ObserverScoping ==
    [][(ret'.op = "commit") =>
          \A n \in 2..Len(nest) :
              MutatedBranches = {n} =>
                  /\ \A f \in ObserveCalls(fired') : f.branch = n
                  /\ \A s \in nest[n].doc.subs :
                        Cardinality({f \in ObserveCalls(fired') : f.sub = s}) = 1]_vars

\* The last commit invoked the observer of the nested map 2 and no observer of
\* the root map, which has one.
C12_Witness ==
    /\ ret.op = "commit"
    /\ nest[1].doc.subs = {0}
    /\ Len(nest) >= 2
    /\ nest[2].doc.subs = {0}
    /\ ObserveCalls(fired) =
          {[kind |-> "observe", branch |-> 2, sub |-> 0, paths |-> {<<>>}]}

\* The branch and staged pairs of the insert of a PrelimMap the step made.
PutMapCall == ret'.op = "put_map"

\* C16: right after the insert of a PrelimMap under a key of an attached map,
\* get of that key resolves to the new nested map, whose get returns the
\* staged value for every staged key and none for the others and whose len is
\* the number of staged keys; the new map is empty before the staged pairs are
\* integrated.
C16_PrelimMapReplay ==
    [][PutMapCall =>
          LET b == ret'.arg[1].branch
              staged == ret'.arg[1].staged
              n == Len(nest')
              r == InsertPrelim(nest, b, ObsClient, ret'.key, staged)
          IN  /\ n = Len(nest) + 1
              /\ Get(nest'[b].blocks, nest'[b].doc, ret'.key) = Some(YMap(n))
              /\ \A k \in Keys :
                    Get(nest'[n].blocks, nest'[n].doc, k) =
                        IF k \in DOMAIN staged THEN Some(Primitive(staged[k])) ELSE None
              /\ len(nest'[n].doc) = Cardinality(DOMAIN staged)
              /\ len(r.created[n].doc) = 0
              /\ DOMAIN r.created[n].blocks = {}]_vars

\* A PrelimMap staging a = 1 and b = 2 was inserted: the nested map holds both.
C16_Witness ==
    /\ ret.op = "put_map"
    /\ ret.arg[1].staged = [k \in Keys |-> IF k = "a" THEN 1 ELSE 2]
    /\ len(nest[Len(nest)].doc) = 2
    /\ Get(nest[Len(nest)].blocks, nest[Len(nest)].doc, "a") = Some(Primitive(1))
    /\ Get(nest[Len(nest)].blocks, nest[Len(nest)].doc, "b") = Some(Primitive(2))

\* The keys under which the maps from the root down to branch n are stored.
RECURSIVE KeysDownTo(_)
KeysDownTo(n) ==
    IF nest[n].parent = None THEN <<>>
    ELSE KeysDownTo(nest[n].parent[1].branch) \o <<nest[n].parent[1].key>>

DeepCallsOfRoot(calls) == {f \in calls : f.kind = "deep" /\ f.branch = 1}

\* C18: the deep observer of the root map is invoked once by every commit of a
\* transaction that mutated the root map or a map nested beneath it and by no
\* other step; every path it is given is the sequence of keys from the root
\* down to a mutated map, and when a single map was mutated it is that map's.
C18_DeepObserver ==
    [][IF ret'.op = "commit"
       THEN /\ Cardinality(DeepCallsOfRoot(fired')) = 1
            /\ \A f \in DeepCallsOfRoot(fired') :
                  /\ f.paths # {}
                  /\ f.paths \subseteq {KeysDownTo(n) : n \in MutatedBranches}
                  /\ \A n \in 1..Len(nest) :
                        MutatedBranches = {n} => f.paths = {KeysDownTo(n)}
       ELSE fired' = {}]_vars

\* The last commit gave the deep observer of the root one event whose path has
\* two keys: the changed map lies two levels beneath the root.
C18_Witness ==
    /\ ret.op = "commit"
    /\ \E f \in DeepCallsOfRoot(fired) :
          \E p \in f.paths : Len(p) = 2 /\ f.paths = {p}

\* The live items of key k in the version log of replica c.
LiveItems(c, k) == Range(docs[c].list[k]) \ docs[c].deleted

\* C21, as stated: every key of the entry index has exactly one live entry.
C21_ExactlyOneLiveEntry ==
    \A c \in Clients, k \in Keys :
        docs[c].map[k] # None => Cardinality(LiveItems(c, k)) = 1

\* C21: a key of the entry index has one live entry when its index entry is
\* live and none when remove() or clear() tombstoned it; a key outside the
\* index has no entry at all; a remove() that returned a value left the key in
\* the index without a live entry.
C21_AtMostOneLiveEntry ==
    /\ \A c \in Clients, k \in Keys :
          /\ docs[c].map[k] # None
             => Cardinality(LiveItems(c, k)) = (IF contains(docs[c], k) THEN 1 ELSE 0)
          /\ docs[c].map[k] = None => docs[c].list[k] = <<>>
    /\ (ret.op = "remove" /\ ret.val # None)
       => /\ docs[ret.client].map[ret.key] # None
          /\ LiveItems(ret.client, ret.key) = {}

\* A remove() has just returned the value of a key written twice: the index
\* still holds the key, none of its two entries is live, and the other key of
\* the replica has its one live entry.
C21_Witness ==
    /\ ret.op = "remove"
    /\ ret.val # None
    /\ Len(docs[ret.client].list[ret.key]) = 2
    /\ docs[ret.client].map[ret.key] # None
    /\ LiveItems(ret.client, ret.key) = {}
    /\ \E k \in Keys \ {ret.key} : Cardinality(LiveItems(ret.client, k)) = 1

\* C22: on every replica len() is the number of keys contains() accepts, the
\* number of keys keys() yields and the number of keys of to_json(), whatever
\* the order the entry index is visited in, and contains(k) holds exactly when
\* get(k) is not none; the results the callers received agree the same way.
C22_ReadsAgree ==
    /\ \A c \in Clients :
          /\ len(docs[c]) = Cardinality({k \in Keys : contains(docs[c], k)})
          /\ \A order \in IterOrders :
                /\ Len(MapKeys(docs[c], order)) = len(docs[c])
                /\ Cardinality(Range(MapKeys(docs[c], order))) = len(docs[c])
                /\ Cardinality(DOMAIN ToJson(blocks, docs[c], order)) = len(docs[c])
                /\ DOMAIN ToJson(blocks, docs[c], order) = Range(MapKeys(docs[c], order))
          /\ \A k \in Keys : contains(docs[c], k) <=> Get(blocks, docs[c], k) # None
    /\ ret.op = "len"
       => ret.val[1] = Cardinality({k \in Keys : contains(docs[ret.client], k)})
    /\ ret.op = "keys" => Len(ret.val[1]) = len(docs[ret.client])
    /\ ret.op = "to_json" => Cardinality(DOMAIN ret.val[1]) = len(docs[ret.client])
    /\ ret.op = "contains" => (ret.val[1] <=> Get(blocks, docs[ret.client], ret.key) # None)
    /\ ret.op = "get" => (ret.val # None <=> contains(docs[ret.client], ret.key))

\* to_json() has just returned one key of a replica whose entry index holds
\* two: the other key's entry is a tombstone, and the live key was written
\* twice.
C22_Witness ==
    /\ ret.op = "to_json"
    /\ Cardinality(DOMAIN ret.val[1]) = 1
    /\ \A k \in Keys : docs[ret.client].map[k] # None
    /\ \E k \in Keys : ~contains(docs[ret.client], k)
    /\ \E k \in DOMAIN ret.val[1] :
          /\ Len(docs[ret.client].list[k]) = 2
          /\ ret.val[1][k] = Get(blocks, docs[ret.client], k)[1]
    /\ len(docs[ret.client]) = 1

\* C23: after a local insert(key, v) the new item is the entry index's holder
\* of the key; its origin and left neighbour is the holder the index had
\* before, it has no right origin and no right neighbour; the previous holder
\* and every other item of the key the replica held are tombstoned, and
\* get(key) is v.
C23_LocalInsertSupersedes ==
    [][\A c \in Clients, k \in Keys :
          (ret'.op = "insert" /\ ret'.client = c /\ ret'.key = k)
          => LET id == NextId(docs[c], c)
                 prev == docs[c].map[k]
                 chain == docs'[c].list[k]
             IN  /\ docs'[c].map[k] = Some(id)
                 /\ blocks'[id].origin = prev
                 /\ blocks'[id].rightOrigin = None
                 /\ chain = docs[c].list[k] \o <<id>>
                 /\ prev # None => chain[Len(chain) - 1] = prev[1]
                 /\ prev # None => IsDeleted(docs'[c], prev[1])
                 /\ \A old \in Range(docs[c].list[k]) : IsDeleted(docs'[c], old)
                 /\ Get(blocks', docs'[c], k) = ret'.arg]_vars

\* A replica that holds two concurrent writes of a key, its own and a remote
\* one, has just written the key again: the new item is the last of three.
C23_Witness ==
    /\ ret.op = "insert"
    /\ ret.val # None
    /\ LET chain == docs[ret.client].list[ret.key]
       IN  /\ Len(chain) = 3
           /\ blocks[chain[1]].origin = None
           /\ blocks[chain[2]].origin = None
           /\ blocks[chain[3]].origin = Some(chain[2])
           /\ chain[3][1] = ret.client
           /\ docs[ret.client].map[ret.key] = Some(chain[3])

ReadOps == {"get", "contains", "len", "keys", "values", "iter", "to_json"}

\* C24: insert(k, v) and remove(k) leave get(k2) and contains(k2) of the same
\* map as they were for every other key k2; get, contains, len, keys, values,
\* iter and to_json change nothing of the block store, the replicas or the
\* tombstones.
C24_Frame ==
    [][/\ \A c \in Clients, k \in Keys :
             (ret'.op \in {"insert", "remove"} /\ ret'.client = c /\ ret'.key = k)
             => \A k2 \in Keys \ {k} :
                   /\ Get(blocks', docs'[c], k2) = Get(blocks, docs[c], k2)
                   /\ contains(docs'[c], k2) = contains(docs[c], k2)
       /\ ret'.op \in ReadOps
          => /\ blocks' = blocks
             /\ docs' = docs
             /\ removed' = removed]_vars

\* A remove() has just returned the value of one key of a replica whose other
\* key is live, written by the other replica.
C24_Witness ==
    /\ ret.op = "remove"
    /\ ret.val # None
    /\ \E k2 \in Keys \ {ret.key} :
          /\ contains(docs[ret.client], k2)
          /\ docs[ret.client].map[k2][1][1] # ret.client

\* C25: clear() hands every entry of the entry index to Transaction::delete,
\* tombstoned ones included, and tombstones exactly the live ones: afterwards
\* no key is contained and no tombstone is lost; on an empty map, on a map
\* whose keys are all tombstoned, and so right after another clear(), the
\* replica's state is left as it was.
C25_ClearIdempotent ==
    [][\A c \in Clients :
          (ret'.op = "clear" /\ ret'.client = c)
          => /\ ret'.arg[1] = {docs[c].map[k][1] : k \in {x \in Keys : docs[c].map[x] # None}}
             /\ ret'.val[1] = {id \in ret'.arg[1] : ~IsDeleted(docs[c], id)}
             /\ docs'[c].deleted = docs[c].deleted \cup ret'.arg[1]
             /\ \A k \in Keys : ~contains(docs'[c], k)
             /\ \A k \in Keys : docs'[c].map[k] = docs[c].map[k]
             /\ len(docs[c]) = 0 => (docs' = docs /\ blocks' = blocks /\ removed' = removed)
             /\ (ret.op = "clear" /\ ret.client = c) => docs' = docs]_vars

\* A clear() has just visited the two tombstoned entries of a replica and
\* tombstoned none.
C25_Witness ==
    /\ ret.op = "clear"
    /\ Cardinality(ret.arg[1]) = 2
    /\ ret.val[1] = {}
    /\ \A k \in Keys : docs[ret.client].map[k] # None
    /\ len(docs[ret.client]) = 0

====
